---- MODULE Spec2Model ----
(***************************************************************************)
(* optimize_photos.py: one run of main() -> process_photos() over a small  *)
(* file system.  A run validates its arguments, creates the output and     *)
(* backup directories, enumerates and sorts the image files of the input   *)
(* directory, handles each file once (timestamp, fresh output name,        *)
(* transcode, backup copy, statistics) and prints a summary.               *)
(*                                                                         *)
(* Conventions of the model                                                *)
(*  - a file name is a record [stem, num, n, ext] that renders as          *)
(*    <stem>-<num><ext> when n = 0 and <stem>-<num>-<n><ext> otherwise;    *)
(*    num stands for the zero-padded digits (the HHMM of an output name),  *)
(*    so that numeric order is the order of the rendered text;             *)
(*  - every timestamp of the model lies on one day (2024-12-21) and is     *)
(*    counted in seconds since that day's midnight; a file modification    *)
(*    time outside 0..86399 stands for one datetime.fromtimestamp rejects; *)
(*  - --width is left out: no claim reads it.                              *)
(***************************************************************************)
EXTENDS Integers, Sequences, FiniteSets

VARIABLES
    pc,                    \* "main", "mkdirs", "enumerate", "loop", "exit"
    args,                  \* the parsed command line
    fs,                    \* the file system: path -> node
    fs0,                   \* the file system when the run started (history)
    image_files,           \* sorted(image_files) not yet handled
    processed,
    failed,
    total_original_size,
    total_optimized_size,
    log,                   \* history: one record per handled file
    printed,               \* what the run has printed so far
    exit_code,             \* the exit status, once pc = "exit"
    error                  \* the exception that ended the run, or "none"

vars == <<pc, args, fs, fs0, image_files, processed, failed,
          total_original_size, total_optimized_size, log, printed,
          exit_code, error>>

----------------------------------------------------------------------------
(* Bounds of the model *)

\* at most this many image files in the input directory
MaxFiles == 2

----------------------------------------------------------------------------
(* File names *)

\* --event choices of the argument parser
Choices == {"solstice", "equinox", "winter-solstice", "summer-solstice",
            "spring-equinox", "fall-equinox"}

image_extensions == {".jpg", ".jpeg", ".png", ".JPG", ".JPEG", ".PNG"}

\* the character order of the stems and extensions the model uses
StemOrder == <<"IMG", "equinox", "fall-equinox", "notes", "solstice",
               "spring-equinox", "summer-solstice", "winter-solstice">>
ExtOrder == <<".JPEG", ".JPG", ".PNG", ".jpeg", ".jpg", ".png", ".txt">>

RankIn(seq, x) == CHOOSE i \in 1..Len(seq) : seq[i] = x

\* the position of the name's tail after <stem>-<num>: "-1..." < "-2..." < "."
TailRank(name) == IF name.n = 0 THEN 10 ELSE name.n

\* a < b in the order sorted() gives Path objects of one directory:
\* the character order of the rendered names
NameLess(a, b) ==
    LET sa == RankIn(StemOrder, a.stem)
        sb == RankIn(StemOrder, b.stem)
    IN  \/ sa < sb
        \/ sa = sb /\ a.num < b.num
        \/ sa = sb /\ a.num = b.num /\ TailRank(a) < TailRank(b)
        \/ sa = sb /\ a.num = b.num /\ TailRank(a) = TailRank(b)
              /\ RankIn(ExtOrder, a.ext) < RankIn(ExtOrder, b.ext)

SortedReversed(S) ==
    LET RECURSIVE Build(_)
        Build(T) == IF T = {} THEN <<>>
                    ELSE LET m == CHOOSE x \in T : \A y \in T \ {x} : NameLess(y, x)
                         IN  <<m>> \o Build(T \ {m})
    IN  Build(S)

\* sorted(image_files)
Sorted(S) ==
    LET RECURSIVE Build(_)
        Build(T) == IF T = {} THEN <<>>
                    ELSE LET m == CHOOSE x \in T : \A y \in T \ {x} : NameLess(x, y)
                         IN  <<m>> \o Build(T \ {m})
    IN  Build(S)

\* f"{event_name}-{dt.strftime('%Y-%m-%d-%H%M')}.jpg", and with -{counter}
OutputName(event, hhmm, counter) ==
    [stem |-> event, num |-> hhmm, n |-> counter, ext |-> ".jpg"]

----------------------------------------------------------------------------
(* Timestamps *)

\* datetime.strptime(text, "%Y:%m:%d %H:%M:%S"): seconds since midnight of
\* 2024-12-21, or -1 for ValueError
Strptime(text) ==
    CASE text = "2024:12:21 08:00:00" -> 28800
      [] text = "2024:12:21 08:00:30" -> 28830
      [] text = "2024:12:21 08:05:00" -> 29100
      [] OTHER -> -1

\* dt.strftime('%H%M') as digits: the seconds are dropped
Strftime(dt) == (dt \div 3600) * 100 + (dt % 3600) \div 60

\* datetime.fromtimestamp(os.path.getmtime(path)) raises out of range
MtimeRaises(f) == f.mtime < 0 \/ f.mtime > 86399

Fallback(f, why) ==
    [raised |-> MtimeRaises(f), dt |-> f.mtime, warned |-> TRUE, from |-> why]

\* get_exif_datetime: the first tag PRESENT decides; when its text does not
\* parse, strptime's ValueError leaves the loop for the except branch
get_exif_datetime(f) ==
    IF ~f.exif_ok THEN Fallback(f, "load_error")
    ELSE IF f.orig # "absent"
         THEN IF Strptime(f.orig) >= 0
              THEN [raised |-> FALSE, dt |-> Strptime(f.orig),
                    warned |-> FALSE, from |-> "original"]
              ELSE Fallback(f, "parse_error")
    ELSE IF f.dig # "absent"
         THEN IF Strptime(f.dig) >= 0
              THEN [raised |-> FALSE, dt |-> Strptime(f.dig),
                    warned |-> FALSE, from |-> "digitized"]
              ELSE Fallback(f, "parse_error")
    ELSE Fallback(f, "no_tag")

----------------------------------------------------------------------------
(* Files and the file system *)

\* encoded: the byte size of the JPEG the run's settings make of the image
File(id, size, decodable, encoded, exif_ok, orig, dig, mtime) ==
    [id |-> id, size |-> size, decodable |-> decodable, encoded |-> encoded,
     exif_ok |-> exif_ok, orig |-> orig, dig |-> dig, mtime |-> mtime]

\* The sample files a source directory is filled from.  A file Pillow can
\* decode is never empty; re-encoding may shrink or grow it.
Fixtures == {
    File("jpeg_0800",      2, TRUE,  1, TRUE,  "2024:12:21 08:00:00", "absent", 30000),
    File("jpeg_0800_30",   1, TRUE,  2, TRUE,  "2024:12:21 08:00:30", "2024:12:21 08:05:00", 30000),
    File("jpeg_dig_0805",  2, TRUE,  1, TRUE,  "absent", "2024:12:21 08:05:00", 30000),
    File("jpeg_bad_orig",  1, TRUE,  1, TRUE,  "0000:00:00 00:00:00", "2024:12:21 08:00:00", 29100),
    File("png_no_exif",    1, TRUE,  1, FALSE, "absent", "absent", 28800),
    File("jpeg_far_mtime", 1, TRUE,  1, TRUE,  "absent", "absent", 99999),
    File("corrupt",        2, FALSE, 0, FALSE, "absent", "absent", 28800),
    File("empty",          0, FALSE, 0, FALSE, "absent", "absent", 29100) }

TextFile == File("text", 1, FALSE, 0, FALSE, "absent", "absent", 28800)

\* an output of an earlier run
OldJpeg == File("old_output", 1, TRUE, 1, TRUE, "2024:12:21 08:00:00", "absent", 40000)

\* the JPEG img.save writes: the source's EXIF block is carried over when
\* piexif could read it (lines 65-68, 94-95)
Jpeg(f) ==
    File("optimized", f.encoded, TRUE, f.encoded, f.exif_ok,
         IF f.exif_ok THEN f.orig ELSE "absent",
         IF f.exif_ok THEN f.dig ELSE "absent", 50000)

NoFiles == [n \in {} |-> TextFile]

Put(files, name, f) ==
    [x \in DOMAIN files \cup {name} |-> IF x = name THEN f ELSE files[x]]

Absent == [kind |-> "absent", files |-> NoFiles]
RegularFile == [kind |-> "file", files |-> NoFiles]
Dir(files) == [kind |-> "dir", files |-> files]

Paths == {"photos", "web", "web_originals", "photos_originals", "missing"}

\* output_path.parent / f"{output_path.name}_originals"
BackupPath(output) ==
    CASE output = "web" -> "web_originals"
      [] output = "photos" -> "photos_originals"

\* os.path.isdir
IsDir(path) == fs[path].kind = "dir"

ExistsNever(path, name) == FALSE

\* (path / name).exists()
Exists(path, name) == fs[path].kind = "dir" /\ name \in DOMAIN fs[path].files

\* Path.mkdir(parents=True, exist_ok=True) on a file system g
Mkdir(g, path) ==
    IF g[path].kind = "absent" THEN [g EXCEPT ![path] = Dir(NoFiles)] ELSE g

\* writing content f at path/name
WriteFile(g, path, name, f) ==
    [g EXCEPT ![path].files = Put(g[path].files, name, f)]

----------------------------------------------------------------------------
(* The states a run starts from *)

CameraName(num, ext) == [stem |-> "IMG", num |-> num, n |-> 0, ext |-> ext]
NotesName == [stem |-> "notes", num |-> 1, n |-> 0, ext |-> ".txt"]

\* names a source directory may hold: two camera files, two files named like
\* outputs of this tool, and a text file
SourceNames == {CameraName(1, ".jpg"), CameraName(2, ".PNG"),
                OutputName("solstice", 800, 0), OutputName("solstice", 800, 1),
                NotesName}

IsImageName(name) == name.ext \in image_extensions

SourceDirs ==
    { d \in UNION { [S -> Fixtures \cup {TextFile}] :
                      S \in { T \in SUBSET SourceNames :
                                Cardinality({x \in T : IsImageName(x)}) <= MaxFiles } } :
        \A x \in DOMAIN d : IsImageName(x) <=> d[x] # TextFile }

\* what the output path holds before the run, when it is not the input directory
OutputStates ==
    {Absent, RegularFile}
      \cup { Dir([x \in S |-> OldJpeg]) :
               S \in SUBSET {OutputName("solstice", 800, 0), OutputName("solstice", 800, 1)} }

ArgumentSets ==
    [input : {"photos", "web_originals", "missing"},
     output : {"web", "photos"},
     event : {"solstice", "birthday"},
     quality : {0, 1, 100, 101}]

InitialFs(a, src, out) ==
    [p \in Paths |->
        IF p = "missing" THEN Absent
        ELSE IF p = a.input THEN Dir(src)
        ELSE IF p = a.output THEN out
        ELSE Absent]

Init ==
    /\ pc = "main"
    /\ args \in ArgumentSets
    /\ \E src \in (IF args.input = "missing" THEN {NoFiles} ELSE SourceDirs),
          out \in (IF args.output = args.input THEN {Absent} ELSE OutputStates) :
          fs = InitialFs(args, src, out)
    /\ fs0 = fs
    /\ image_files = <<>>
    /\ processed = 0
    /\ failed = 0
    /\ total_original_size = 0
    /\ total_optimized_size = 0
    /\ log = <<>>
    /\ printed = {}
    /\ exit_code = 0
    /\ error = "none"

----------------------------------------------------------------------------
(* main *)

run_vars == <<image_files, processed, failed, total_original_size,
              total_optimized_size, log>>

Exit(code, why, message) ==
    /\ pc' = "exit"
    /\ exit_code' = code
    /\ error' = why
    /\ printed' = printed \cup message

QualityInRangeLoose(q) == ~(q < 0 \/ q > 101)

\* not (args.quality < 1 or args.quality > 100)
QualityInRange(q) == ~(q < 1 \/ q > 100)

\* parser.parse_args(): --event is not one of the choices
MainBadEvent ==
    /\ pc = "main"
    /\ args.event \notin Choices
    /\ Exit(2, "SystemExit", {"usage"})
    /\ UNCHANGED <<args, fs, fs0, run_vars>>

MainNoInputDir ==
    /\ pc = "main"
    /\ args.event \in Choices
    /\ ~IsDir(args.input)
    /\ Exit(1, "SystemExit", {"no_input_dir"})
    /\ UNCHANGED <<args, fs, fs0, run_vars>>

MainBadQuality ==
    /\ pc = "main"
    /\ args.event \in Choices
    /\ IsDir(args.input)
    /\ ~QualityInRange(args.quality)
    /\ Exit(1, "SystemExit", {"bad_quality"})
    /\ UNCHANGED <<args, fs, fs0, run_vars>>

MainCallsProcessPhotos ==
    /\ pc = "main"
    /\ args.event \in Choices
    /\ IsDir(args.input)
    /\ QualityInRange(args.quality)
    /\ pc' = "mkdirs"
    /\ UNCHANGED <<args, fs, fs0, run_vars, printed, exit_code, error>>

----------------------------------------------------------------------------
(* process_photos *)

input_path == args.input
output_path == args.output
backup_path == BackupPath(args.output)

\* output_path.mkdir raises FileExistsError when the path is a regular file
MakeDirsFails ==
    /\ pc = "mkdirs"
    /\ fs[output_path].kind = "file"
    /\ Exit(1, "FileExistsError", {"traceback"})
    /\ UNCHANGED <<args, fs, fs0, run_vars>>

MakeDirs ==
    /\ pc = "mkdirs"
    /\ fs[output_path].kind # "file"
    /\ fs' = Mkdir(Mkdir(fs, output_path), backup_path)
    /\ pc' = "enumerate"
    /\ UNCHANGED <<args, fs0, run_vars, printed, exit_code, error>>

\* [f for f in input_path.iterdir() if f.is_file() and f.suffix in image_extensions]
ImageFiles == {x \in DOMAIN fs[input_path].files : x.ext \in image_extensions}

\* not image_files
NoImages(files) == files = {}

EnumerateNothing ==
    /\ pc = "enumerate"
    /\ NoImages(ImageFiles)
    /\ Exit(0, "none", {"no_images"})
    /\ UNCHANGED <<args, fs, fs0, run_vars>>

EnumerateFiles ==
    /\ pc = "enumerate"
    /\ ~NoImages(ImageFiles)
    /\ image_files' = Sorted(ImageFiles)
    /\ processed' = 0
    /\ failed' = 0
    /\ total_original_size' = 0
    /\ total_optimized_size' = 0
    /\ printed' = printed \cup {"found"}
    /\ pc' = "loop"
    /\ UNCHANGED <<args, fs, fs0, log, exit_code, error>>

FreshNameUnchecked(path, event, hhmm) == OutputName(event, hhmm, 0)

FreshNameOneProbe(path, event, hhmm) ==
    IF Exists(path, OutputName(event, hhmm, 0))
    THEN OutputName(event, hhmm, 1)
    ELSE OutputName(event, hhmm, 0)

\* lines 146-154: the base name, then -1, -2, ... while the name exists
FreshName(path, event, hhmm) ==
    LET RECURSIVE Try(_)
        Try(counter) ==
            IF Exists(path, OutputName(event, hhmm, counter))
            THEN Try(counter + 1)
            ELSE OutputName(event, hhmm, counter)
    IN  Try(0)

\* optimize_image: the file system after the call and what it returns.
\* Image.open fails on a file Pillow cannot decode; a failed call leaves no
\* file behind.
optimize_image(g, f, path, name) ==
    IF f.decodable
    THEN [ok |-> TRUE, fs |-> WriteFile(g, path, name, Jpeg(f))]
    ELSE [ok |-> FALSE, fs |-> g]

\* shutil.copy2 raises SameFileError when source and destination are one file
SameFile(path1, name1, path2, name2) == path1 = path2 /\ name1 = name2

\* shutil.copy2(img_file, backup_file): a byte-for-byte copy, metadata kept
Copy2(g, src_path, src_name, dst_path, dst_name) ==
    WriteFile(g, dst_path, dst_name, g[src_path].files[src_name])

NoName == [stem |-> "none", num |-> 0, n |-> 0, ext |-> ""]

LogEntry(src, f, result, ts, out, existed, opt) ==
    [src |-> src, file |-> f, result |-> result, ts |-> ts, out |-> out,
     existed |-> existed, opt |-> opt]

img_file == Head(image_files)
img == fs[input_path].files[img_file]
new_filename == FreshName(output_path, args.event, Strftime(get_exif_datetime(img).dt))

\* line 143 raises: the except branch counts the file as failed
FileTimestampFails ==
    /\ pc = "loop"
    /\ image_files # <<>>
    /\ get_exif_datetime(img).raised
    /\ failed' = failed + 1
    /\ image_files' = Tail(image_files)
    /\ log' = Append(log, LogEntry(img_file, img, "timestamp_error",
                                   get_exif_datetime(img), NoName, FALSE, 0))
    /\ printed' = printed \cup {"error_processing"}
    /\ UNCHANGED <<pc, args, fs, fs0, processed, total_original_size,
                   total_optimized_size, exit_code, error>>

\* optimize_image returns False (lines 100-102, 175-176)
FileTranscodeFails ==
    /\ pc = "loop"
    /\ image_files # <<>>
    /\ ~get_exif_datetime(img).raised
    /\ ~optimize_image(fs, img, output_path, new_filename).ok
    /\ total_original_size' = total_original_size + img.size
    /\ failed' = failed + 1
    /\ image_files' = Tail(image_files)
    /\ log' = Append(log, LogEntry(img_file, img, "transcode_failed",
                                   get_exif_datetime(img), new_filename,
                                   Exists(output_path, new_filename), 0))
    /\ printed' = printed \cup {"error_optimizing"}
    /\ UNCHANGED <<pc, args, fs, fs0, processed, total_optimized_size,
                   exit_code, error>>

\* the output is written, then line 166 (a zero original size) or line 172
\* (SameFileError) raises: the except branch counts the file as failed.
\* When line 166 passes, line 167 has printed the reduction before line 172
\* raises.
FileFailsAfterWrite ==
    /\ pc = "loop"
    /\ image_files # <<>>
    /\ ~get_exif_datetime(img).raised
    /\ LET r == optimize_image(fs, img, output_path, new_filename)
           \* output_file.stat().st_size
           size == r.fs[output_path].files[new_filename].size
       IN  /\ r.ok
           /\ \/ img.size = 0
              \/ SameFile(input_path, img_file, backup_path, img_file)
           /\ fs' = r.fs
           /\ total_optimized_size' = total_optimized_size + size
           /\ log' = Append(log, LogEntry(img_file, img, "error_after_write",
                                          get_exif_datetime(img), new_filename,
                                          Exists(output_path, new_filename), size))
    /\ total_original_size' = total_original_size + img.size
    /\ failed' = failed + 1
    /\ image_files' = Tail(image_files)
    /\ printed' = printed \cup {"error_processing"}
                     \cup (IF img.size # 0 THEN {"reduction"} ELSE {})
    /\ UNCHANGED <<pc, args, fs0, processed, exit_code, error>>

FileSucceeds ==
    /\ pc = "loop"
    /\ image_files # <<>>
    /\ ~get_exif_datetime(img).raised
    /\ LET r == optimize_image(fs, img, output_path, new_filename)
           \* output_file.stat().st_size
           size == r.fs[output_path].files[new_filename].size
       IN  /\ r.ok
           /\ img.size # 0
           /\ ~SameFile(input_path, img_file, backup_path, img_file)
           /\ fs' = Copy2(r.fs, input_path, img_file, backup_path, img_file)
           /\ total_optimized_size' = total_optimized_size + size
           /\ log' = Append(log, LogEntry(img_file, img, "ok",
                                          get_exif_datetime(img), new_filename,
                                          Exists(output_path, new_filename), size))
    /\ total_original_size' = total_original_size + img.size
    /\ processed' = processed + 1
    /\ image_files' = Tail(image_files)
    /\ printed' = printed \cup {"reduction"}
    /\ UNCHANGED <<pc, args, fs0, failed, exit_code, error>>

\* lines 183-193 with a non-zero original total
Summary ==
    /\ pc = "loop"
    /\ image_files = <<>>
    /\ total_original_size # 0
    /\ Exit(0, "none", {"counts", "storage"})
    /\ UNCHANGED <<args, fs, fs0, run_vars>>

\* line 190 divides by total_original_size = 0, after the counts are printed
SummaryDividesByZero ==
    /\ pc = "loop"
    /\ image_files = <<>>
    /\ total_original_size = 0
    /\ Exit(1, "ZeroDivisionError", {"counts", "traceback"})
    /\ UNCHANGED <<args, fs, fs0, run_vars>>

Next ==
    \/ MainBadEvent
    \/ MainNoInputDir
    \/ MainBadQuality
    \/ MainCallsProcessPhotos
    \/ MakeDirsFails
    \/ MakeDirs
    \/ EnumerateNothing
    \/ EnumerateFiles
    \/ FileTimestampFails
    \/ FileTranscodeFails
    \/ FileFailsAfterWrite
    \/ FileSucceeds
    \/ Summary
    \/ SummaryDividesByZero

Spec == Init /\ [][Next]_vars

----------------------------------------------------------------------------
(* Vocabulary of the properties *)

\* the arguments pass main's validation
Validated ==
    /\ args.event \in Choices
    /\ fs0[args.input].kind = "dir"
    /\ args.quality >= 1 /\ args.quality <= 100

\* the loop of process_photos has handled every file and the summary began
LoopDone == pc = "exit" /\ "counts" \in printed

\* the image files of the input directory when the run started
SourceImages ==
    {x \in DOMAIN fs0[args.input].files : x.ext \in image_extensions}

\* log entries whose output file was written
Wrote(i) == log[i].result \in {"ok", "error_after_write"}

SameStamp(i, j) == log[i].out.num = log[j].out.num

\* the least counter whose output name was free when the run started
LeastFree(hhmm) ==
    LET taken == DOMAIN fs0[args.output].files
        free(c) == OutputName(args.event, hhmm, c) \notin taken
    IN  CHOOSE c \in 0..Cardinality(taken) :
            free(c) /\ \A d \in 0..(c - 1) : ~free(d)

\* the files the run added to the output directory
AddedOutputs == DOMAIN fs[args.output].files \ DOMAIN fs0[args.output].files

\* the original sizes, and the output sizes, of the entries counted as succeeded
RECURSIVE SumOkOriginal(_)
SumOkOriginal(seq) ==
    IF seq = <<>> THEN 0
    ELSE (IF Head(seq).result = "ok" THEN Head(seq).file.size ELSE 0)
           + SumOkOriginal(Tail(seq))

RECURSIVE SumOkOptimized(_)
SumOkOptimized(seq) ==
    IF seq = <<>> THEN 0
    ELSE (IF Head(seq).result = "ok" THEN Head(seq).opt ELSE 0)
           + SumOkOptimized(Tail(seq))

\* the first timestamp source that succeeds: original, digitized, mtime
FirstSourceThatSucceeds(f) ==
    IF f.exif_ok /\ f.orig # "absent" /\ Strptime(f.orig) >= 0
    THEN [dt |-> Strptime(f.orig), warned |-> FALSE]
    ELSE IF f.exif_ok /\ f.dig # "absent" /\ Strptime(f.dig) >= 0
    THEN [dt |-> Strptime(f.dig), warned |-> FALSE]
    ELSE [dt |-> f.mtime, warned |-> TRUE]

----------------------------------------------------------------------------
(* C1 *)

\* C1 as stated: among the outputs of one timestamp, in handling order, the
\* first is the base name and the k-th later one carries the suffix -k; all
\* outputs written are pairwise distinct.
C1_Original ==
    LoopDone =>
        \A i \in DOMAIN log :
          (Wrote(i) /\ \E k \in DOMAIN log : k # i /\ Wrote(k) /\ SameStamp(i, k)) =>
            /\ log[i].out.n =
                 Cardinality({j \in 1..(i - 1) : Wrote(j) /\ SameStamp(i, j)})
            /\ \A j \in DOMAIN log : (Wrote(j) /\ j # i) => log[j].out # log[i].out

\* C1 amended: the first output of a timestamp gets the first name of the
\* sequence base, -1, -2, ... that was unused in the output directory when the
\* run started (the base name when that was free), each later output of the
\* same timestamp gets a strictly larger suffix, and all outputs written are
\* pairwise distinct.
C1_FreshNames ==
    \A i \in DOMAIN log : Wrote(i) =>
        /\ log[i].out.stem = args.event /\ log[i].out.ext = ".jpg"
        /\ log[i].out.num = Strftime(log[i].ts.dt)
        /\ (\A j \in 1..(i - 1) : ~(Wrote(j) /\ SameStamp(i, j)))
              => log[i].out.n = LeastFree(log[i].out.num)
        /\ \A j \in 1..(i - 1) : (Wrote(j) /\ SameStamp(i, j))
              => log[j].out.n < log[i].out.n
        /\ \A j \in DOMAIN log : (Wrote(j) /\ j # i) => log[j].out # log[i].out

\* two outputs of one timestamp, written into a directory that held the base name
C1_Witness ==
    /\ LoopDone
    /\ OutputName("solstice", 800, 0) \in DOMAIN fs0[args.output].files
    /\ \E i, j \in DOMAIN log :
          /\ i < j /\ Wrote(i) /\ Wrote(j)
          /\ log[i].out.num = 800 /\ log[j].out.num = 800
          /\ log[i].out.n >= 1 /\ log[j].out.n > log[i].out.n

----------------------------------------------------------------------------
(* C2 *)

\* C2: no name the transcoder writes to existed when it was chosen, and every
\* file the output directory held when the run started keeps its content.
C2_NoOverwrite ==
    /\ \A i \in DOMAIN log : Wrote(i) => ~log[i].existed
    /\ \A x \in DOMAIN fs0[args.output].files :
          /\ x \in DOMAIN fs[args.output].files
          /\ fs[args.output].files[x] = fs0[args.output].files[x]

\* an output was written next to an earlier output of the same timestamp
C2_Witness ==
    /\ LoopDone
    /\ args.output # args.input
    /\ fs0[args.output].files = [x \in {OutputName("solstice", 800, 0)} |-> OldJpeg]
    /\ \E i \in DOMAIN log : Wrote(i) /\ log[i].out = OutputName("solstice", 800, 1)
    /\ fs[args.output].files[OutputName("solstice", 800, 0)] = OldJpeg

----------------------------------------------------------------------------
(* C3 *)

\* C3: with at least one qualifying file the run prints the whole summary and
\* ends without an exception.
C3_SummaryNeverRaises ==
    (pc = "exit" /\ "found" \in printed)
        => (error = "none" /\ "storage" \in printed /\ exit_code = 0)

----------------------------------------------------------------------------
(* C4 *)

\* C4: with an invalid argument the run never leaves main, changes nothing in
\* the file system, and its exit status is not zero.
C4_InvalidArgumentsTouchNothing ==
    ~Validated =>
        /\ pc \in {"main", "exit"}
        /\ fs = fs0
        /\ pc = "exit" => (exit_code # 0 /\ error = "SystemExit")

\* --quality 101 with everything else valid has ended the program
C4_Witness ==
    /\ pc = "exit"
    /\ args.quality = 101
    /\ args.event \in Choices
    /\ fs0[args.input].kind = "dir"
    /\ fs0[args.output].kind = "absent"
    /\ exit_code = 1

----------------------------------------------------------------------------
(* C5 *)

HandledThenPending == [i \in DOMAIN log |-> log[i].src] \o image_files

\* C5: the files handled so far followed by the files still to handle are the
\* image files of the input directory in sorted name order, each once; each
\* handled file is counted in exactly one counter; after the loop
\* processed + failed is the number of image files.
C5_EachFileOnceInOrder ==
    (pc = "loop" \/ LoopDone) =>
        /\ \A i, j \in DOMAIN HandledThenPending :
              i < j => NameLess(HandledThenPending[i], HandledThenPending[j])
        /\ {HandledThenPending[i] : i \in DOMAIN HandledThenPending} = SourceImages
        /\ processed = Cardinality({i \in DOMAIN log : log[i].result = "ok"})
        /\ failed = Cardinality({i \in DOMAIN log : log[i].result # "ok"})
        /\ processed + failed = Len(log)
        /\ LoopDone => processed + failed = Cardinality(SourceImages)

\* a file was handled after an earlier file of the run had failed
C5_Witness ==
    /\ LoopDone
    /\ Len(log) >= 2
    /\ log[1].result # "ok"
    /\ log[2].result = "ok"

----------------------------------------------------------------------------
(* C6 *)

\* C6: after the loop the files added to the output directory are exactly the
\* outputs of the inputs counted as succeeded, one each; each of those inputs
\* has an identical copy under its name in the backup directory; an input
\* counted as failed left no output and no backup copy.
C6_OutputsMatchSucceeded ==
    LoopDone =>
        /\ AddedOutputs = {log[i].out : i \in {k \in DOMAIN log : log[k].result = "ok"}}
        /\ Cardinality(AddedOutputs) = processed
        /\ \A i \in DOMAIN log :
              IF log[i].result = "ok"
              THEN /\ log[i].src \in DOMAIN fs[BackupPath(args.output)].files
                   /\ fs[BackupPath(args.output)].files[log[i].src]
                        = fs0[args.input].files[log[i].src]
              ELSE /\ ~(\E x \in AddedOutputs : x = log[i].out
                          /\ \A j \in DOMAIN log : log[j].result = "ok" => log[j].out # x)
                   /\ (BackupPath(args.output) # args.input
                         => log[i].src \notin DOMAIN fs[BackupPath(args.output)].files)

----------------------------------------------------------------------------
(* C7 *)

\* the run got past the creation of its directories
DirsCreated == Validated /\ fs0[args.output].kind # "file"

\* C7: a validated run whose input directory holds no qualifying image file
\* prints the end-of-run summary with its counts, zero processed and zero
\* failed, does not crash and exits zero.
C7_SummaryAlwaysPrinted ==
    (pc = "exit" /\ DirsCreated /\ SourceImages = {}) =>
        /\ "counts" \in printed
        /\ processed = 0 /\ failed = 0
        /\ exit_code = 0 /\ error = "none"

----------------------------------------------------------------------------
(* C8 *)

\* C8: after the loop the totals are the sums over the files counted as
\* succeeded: a failed file adds to neither.
C8_TotalsOverSucceeded ==
    LoopDone =>
        /\ total_original_size = SumOkOriginal(log)
        /\ total_optimized_size = SumOkOptimized(log)

----------------------------------------------------------------------------
(* C9 *)

\* C9: the timestamp of every handled file is that of the first source that
\* succeeds (original, digitized, modification time), with a warning exactly
\* when it is the modification time.
C9_FirstSourceWins ==
    \A i \in DOMAIN log :
        /\ log[i].ts.dt = FirstSourceThatSucceeds(log[i].file).dt
        /\ log[i].ts.warned = FirstSourceThatSucceeds(log[i].file).warned

----------------------------------------------------------------------------
(* C10 *)

\* C10: every file the input directory held when the run started is still
\* there with the same content, whatever the directories are.
C10_SourcesUntouched ==
    \A x \in DOMAIN fs0[args.input].files :
        /\ fs[args.input].kind = "dir"
        /\ x \in DOMAIN fs[args.input].files
        /\ fs[args.input].files[x] = fs0[args.input].files[x]

\* the output directory is the input directory, a source carries the base
\* name of an output, and the output was written beside it
C10_Witness ==
    /\ LoopDone
    /\ args.output = args.input
    /\ OutputName("solstice", 800, 0) \in DOMAIN fs0[args.input].files
    /\ \E i \in DOMAIN log : Wrote(i) /\ log[i].out = OutputName("solstice", 800, 1)
    /\ OutputName("solstice", 800, 1) \in DOMAIN fs[args.input].files

====
